---- MODULE Spec2Model ----
(***************************************************************************)
(* Indexed binary heap of src/src/binaryheap.rs: a VecDeque of elements    *)
(* laid out as a binary tree, plus a table from hash(value) to the list of *)
(* positions that hold a value with that hash.                             *)
(*                                                                         *)
(* Positions are 0-based as in the source; the TLA+ sequence `elements`    *)
(* holds position p at elements[p + 1].  Option<T> is modelled with        *)
(* NoneVal, Option<usize> with NoneInd.  A heap value is the record        *)
(* [elements, element_indices, panicked]; every method of the source is an *)
(* operator from heap records to heap records.                             *)
(***************************************************************************)
EXTENDS Integers, Sequences, FiniteSets, TLC

\* Bound of the model: the longest heap.
MaxLen == 6

\* The values offered to insert and remove_object: three distinct
\* priorities, enough for a parent and two different children.
Values == {1, 2, 3}
NoneVal == 0
NoneInd == -1

\* The hasher S: hash_value is `element % hash_builder`.  The modulus 4
\* gives the values pairwise distinct hashes, 2 makes 1 and 3 collide.
DistinctHashes == 4
CollidingHashes == 2
HashBuilders == {CollidingHashes, DistinctHashes}
Kinds == {"Max", "Min"}

\* T: PartialOrd.  "total" compares the values as integers; "partial" orders
\* them by divisibility (a <= b iff a divides b), where 2 and 3 are incomparable.
Orderings == {"total", "partial"}

VARIABLES
    elements,          \* VecDeque<T>
    kind,              \* HeapKind
    element_indices,   \* HashMap<u64, Vec<usize>>
    hash_builder,      \* S
    ordering,          \* the PartialOrd of T
    panicked,          \* a panic!/unwrap/assert has fired
    op,                \* the public method called last
    arg,               \* its argument (NoneVal when it has none)
    ret,               \* its return value (NoneVal for None and for ())
    path,              \* the match arm the last remove_object took
    ledger,            \* per value: inserted minus returned by extract/remove
    phase,             \* SpecDrain: "fill" while inserting, "drain" once extraction began
    input,             \* SpecDrain: per value, occurrences inserted
    run,               \* SpecDrain: values returned by extract_object so far
    items,             \* SpecHeapify: the slice given to heapify, or the values inserted one by one
    simple,            \* SpecSideBySide: the min-heap of lib.rs given the same calls
    simple_ret,        \* SpecSideBySide: what its last call returned
    probe              \* SpecArithmetic: a heap length, a build, a position and the answers for it

vars == <<elements, kind, element_indices, hash_builder, ordering, panicked,
          op, arg, ret, path, ledger, phase, input, run, items, simple, simple_ret, probe>>

\* The heap as a value.  swaps and visited count the work of one call: the
\* VecDeque::swap calls and the bucket entries remove_from_table iterates over.
\* unforced records that a bubble loop ran its body at a position whose
\* parent (bubble_up) or children (bubble_down) were not in violation.
Self == [elements |-> elements, element_indices |-> element_indices, panicked |-> panicked,
         swaps |-> 0, visited |-> 0, unforced |-> FALSE]

Panic(h) == [h EXCEPT !.panicked = TRUE]

\* Occurrences of each value in a sequence.
Count(s) == [v \in Values |-> Cardinality({i \in DOMAIN s : s[i] = v})]

hash_value(hb, element) == element % hb

len(h) == Len(h.elements)

is_empty(h) == h.elements = <<>>

element_at(h, ind) ==
    IF ind >= 0 /\ ind < Len(h.elements) THEN h.elements[ind + 1] ELSE NoneVal

\* Mutant: peek looks at the back of the deque.
peek_back(h) == IF h.elements = <<>> THEN NoneVal ELSE h.elements[Len(h.elements)]

peek(h) == IF h.elements = <<>> THEN NoneVal ELSE Head(h.elements)

even(num) == num % 2 = 0

\* Mutant: the even arm forgets the `- 1`.
parent_index_even_arm_off_by_one(h, child_ind) ==
    IF element_at(h, child_ind) = NoneVal THEN NoneInd
    ELSE LET parent_ind == child_ind \div 2
         IN  IF element_at(h, parent_ind) # NoneVal THEN parent_ind ELSE NoneInd

\* `(ind as i32 / 2) - 1` is -1 for ind = 0; `-1 as usize` is usize::MAX,
\* which element_at answers with None, as it does any index not below len.
parent_index(h, child_ind) ==
    IF element_at(h, child_ind) = NoneVal THEN NoneInd
    ELSE IF even(child_ind)
         THEN LET parent_ind == (child_ind \div 2) - 1
              IN  IF element_at(h, parent_ind) # NoneVal THEN parent_ind ELSE NoneInd
         ELSE LET parent_ind == child_ind \div 2
              IN  IF element_at(h, parent_ind) # NoneVal THEN parent_ind ELSE NoneInd

\* Mutant: the second child is reported whenever the first one exists.
children_indices_second_unchecked(h, parent_ind) ==
    LET child_1_ind == ((parent_ind + 1) * 2) - 1
        child_2_ind == (parent_ind + 1) * 2
    IN  << IF element_at(h, child_1_ind) # NoneVal THEN child_1_ind ELSE NoneInd,
           IF element_at(h, child_1_ind) # NoneVal THEN child_2_ind ELSE NoneInd >>

children_indices(h, parent_ind) ==
    LET child_1_ind == ((parent_ind + 1) * 2) - 1
        child_2_ind == (parent_ind + 1) * 2
    IN  << IF element_at(h, child_1_ind) # NoneVal THEN child_1_ind ELSE NoneInd,
           IF element_at(h, child_2_ind) # NoneVal THEN child_2_ind ELSE NoneInd >>

\* Mutant: strict comparisons, so equal values are in violation.
verify_priority_strict(obj1, obj2) ==
    CASE kind = "Max" -> obj1 > obj2
      [] kind = "Min" -> obj1 < obj2

\* PartialOrd::le and PartialOrd::ge of T.
le(obj1, obj2) == IF ordering = "total" THEN obj1 <= obj2 ELSE obj2 % obj1 = 0

ge(obj1, obj2) == IF ordering = "total" THEN obj1 >= obj2 ELSE obj1 % obj2 = 0

verify_priority(obj1, obj2) ==
    CASE kind = "Max" -> ge(obj1, obj2)
      [] kind = "Min" -> le(obj1, obj2)

verify_parent(h, child_node_ind, child) ==
    LET parent_ind == parent_index(h, child_node_ind)
    IN  IF parent_ind # NoneInd
        THEN verify_priority(element_at(h, parent_ind), child)
        ELSE TRUE

verify_children(h, index, parent) ==
    LET cs == children_indices(h, index)
    IN  \A k \in 1..2 :
            cs[k] # NoneInd => verify_priority(parent, element_at(h, cs[k]))

\* Callers pass a position below len (the unwrap of element_at succeeds).
verify_heap_property(h, index) ==
    LET current_node == element_at(h, index)
    IN  verify_parent(h, index, current_node) /\ verify_children(h, index, current_node)

\* Mutant: with both children present the comparison picks the other child.
index_with_priority_other_child(h, indices) ==
    CASE indices[1] # NoneInd /\ indices[2] # NoneInd ->
            IF verify_priority(element_at(h, indices[1]), element_at(h, indices[2]))
            THEN indices[2] ELSE indices[1]
      [] indices[1] # NoneInd /\ indices[2] = NoneInd -> indices[1]
      [] indices[1] = NoneInd /\ indices[2] # NoneInd -> indices[2]
      [] OTHER -> NoneInd

\* Mutant: the first child is preferred only when it is strictly better.
index_with_priority_ties_to_second(h, indices) ==
    CASE indices[1] # NoneInd /\ indices[2] # NoneInd ->
            IF ~verify_priority(element_at(h, indices[2]), element_at(h, indices[1]))
            THEN indices[1] ELSE indices[2]
      [] indices[1] # NoneInd /\ indices[2] = NoneInd -> indices[1]
      [] indices[1] = NoneInd /\ indices[2] # NoneInd -> indices[2]
      [] OTHER -> NoneInd

\* NoneInd stands for the panic of the (None, None) arm.
index_with_priority(h, indices) ==
    CASE indices[1] # NoneInd /\ indices[2] # NoneInd ->
            IF verify_priority(element_at(h, indices[1]), element_at(h, indices[2]))
            THEN indices[1] ELSE indices[2]
      [] indices[1] # NoneInd /\ indices[2] = NoneInd -> indices[1]
      [] indices[1] = NoneInd /\ indices[2] # NoneInd -> indices[2]
      [] OTHER -> NoneInd

\* Mutant: the filter drops element_ind instead of element_was_at.
remove_from_table_drops_current(h, element_ind, element_was_at) ==
    IF h.panicked THEN h
    ELSE IF element_at(h, element_ind) = NoneVal THEN Panic(h)
    ELSE LET hv == hash_value(hash_builder, element_at(h, element_ind))
             Retained(ind) == ind # element_ind
         IN  IF hv \in DOMAIN h.element_indices
             THEN [h EXCEPT !.element_indices[hv] = SelectSeq(@, Retained)]
             ELSE h

\* hash of the element now at element_ind; drop element_was_at from its bucket.
remove_from_table(h, element_ind, element_was_at) ==
    IF h.panicked THEN h
    ELSE IF element_at(h, element_ind) = NoneVal THEN Panic(h)
    ELSE LET hv == hash_value(hash_builder, element_at(h, element_ind))
             Retained(ind) == ind # element_was_at
         IN  IF hv \in DOMAIN h.element_indices
             THEN [h EXCEPT !.element_indices[hv] = SelectSeq(@, Retained),
                            !.visited = @ + Len(h.element_indices[hv])]
             ELSE h

update_table_for_element_entry(h, element_index) ==
    IF h.panicked THEN h
    ELSE IF element_at(h, element_index) = NoneVal THEN Panic(h)
    ELSE LET hv == hash_value(hash_builder, element_at(h, element_index))
         IN  IF hv \in DOMAIN h.element_indices
             THEN [h EXCEPT !.element_indices[hv] = Append(@, element_index)]
             ELSE [h EXCEPT !.element_indices = (hv :> <<element_index>>) @@ @]

\* Mutant: only the record of the first position is dropped before re-adding.
update_table_for_swap_one_removal(h, ind1, ind2) ==
    update_table_for_element_entry(
        update_table_for_element_entry(remove_from_table(h, ind1, ind2), ind1),
        ind2)

update_table_for_swap(h, ind1, ind2) ==
    update_table_for_element_entry(
        update_table_for_element_entry(
            remove_from_table(remove_from_table(h, ind1, ind2), ind2, ind1),
            ind1),
        ind2)

\* Mutant: the front().is_some() / back().is_some() guards are missing.
handle_table_changes_unguarded(h) ==
    LET h1 == remove_from_table(h, 0, 0)
        vec_len == Len(h1.elements) - 1
    IN  remove_from_table(h1, vec_len, vec_len)

handle_table_changes(h) ==
    LET h1 == IF h.elements # <<>> THEN remove_from_table(h, 0, 0) ELSE h
    IN  IF h1.elements # <<>>
        THEN LET vec_len == Len(h1.elements) - 1
             IN  remove_from_table(h1, vec_len, vec_len)
        ELSE h1

\* None for an absent bucket and for an empty one.
get_index(h, element) ==
    LET hv == hash_value(hash_builder, element)
    IN  IF hv \in DOMAIN h.element_indices /\ h.element_indices[hv] # <<>>
        THEN h.element_indices[hv]
        ELSE <<>>

\* Mutant: the elements are swapped and the table is left as it was.
swap_elements_table_untouched(h, ind1, ind2) ==
    IF h.panicked THEN h
    ELSE IF element_at(h, ind1) = NoneVal \/ element_at(h, ind2) = NoneVal THEN Panic(h)
    ELSE [h EXCEPT !.elements = [@ EXCEPT ![ind1 + 1] = h.elements[ind2 + 1],
                                          ![ind2 + 1] = h.elements[ind1 + 1]]]

\* VecDeque::swap panics on an index that is out of bounds.
swap_elements(h, ind1, ind2) ==
    IF h.panicked THEN h
    ELSE IF element_at(h, ind1) = NoneVal \/ element_at(h, ind2) = NoneVal THEN Panic(h)
    ELSE update_table_for_swap(
            [h EXCEPT !.elements = [@ EXCEPT ![ind1 + 1] = h.elements[ind2 + 1],
                                             ![ind2 + 1] = h.elements[ind1 + 1]],
                      !.swaps = @ + 1],
            ind1, ind2)

push_back(h, object) ==
    LET h1 == [h EXCEPT !.elements = Append(@, object)]
    IN  update_table_for_element_entry(h1, Len(h1.elements) - 1)

\* Mutant: the table is updated for position 0 but the object is not pushed.
push_front_table_only(h, object) ==
    update_table_for_element_entry(h, 0)

push_front(h, object) ==
    update_table_for_element_entry([h EXCEPT !.elements = <<object>> \o @], 0)

RECURSIVE bubble_up(_, _)
bubble_up(h, new_element_pos) ==
    IF h.panicked THEN h
    ELSE IF element_at(h, new_element_pos) = NoneVal THEN Panic(h)
    ELSE IF verify_heap_property(h, new_element_pos) THEN h
    ELSE LET parent_ind == parent_index(h, new_element_pos)
             forced == ~verify_parent(h, new_element_pos, element_at(h, new_element_pos))
             h1 == IF forced THEN h ELSE [h EXCEPT !.unforced = TRUE]
         IN  IF parent_ind = NoneInd THEN Panic(h1)
             ELSE bubble_up(swap_elements(h1, new_element_pos, parent_ind), parent_ind)

RECURSIVE bubble_down(_, _)
bubble_down(h, new_element_pos) ==
    IF h.panicked THEN h
    ELSE IF element_at(h, new_element_pos) = NoneVal THEN Panic(h)
    ELSE IF verify_heap_property(h, new_element_pos) THEN h
    ELSE LET priority_ind == index_with_priority(h, children_indices(h, new_element_pos))
             forced == ~verify_children(h, new_element_pos, element_at(h, new_element_pos))
             h1 == IF forced THEN h ELSE [h EXCEPT !.unforced = TRUE]
         IN  IF priority_ind = NoneInd THEN Panic(h1)
             ELSE bubble_down(swap_elements(h1, priority_ind, new_element_pos), priority_ind)

\* Mutant: the new element stays at the tail.
insert_without_bubble_up(h, object) ==
    push_back(h, object)

insert(h, object) ==
    LET h1 == push_back(h, object)
    IN  bubble_up(h1, Len(h1.elements) - 1)

\* Self::new(kind) as a value.
EmptyHeap == [elements |-> <<>>, element_indices |-> <<>>, panicked |-> FALSE,
              swaps |-> 0, visited |-> 0, unforced |-> FALSE]

\* items.iter().fold(acc, |acc, item| { acc.insert(item.clone()); acc })
RECURSIVE fold_insert(_, _)
fold_insert(acc, slice) ==
    IF slice = <<>> THEN acc
    ELSE fold_insert(insert(acc, Head(slice)), Tail(slice))

\* Mutant: the slice is folded from its last item to its first.
RECURSIVE fold_insert_reversed(_, _)
fold_insert_reversed(acc, slice) ==
    IF slice = <<>> THEN acc
    ELSE fold_insert_reversed(insert(acc, slice[Len(slice)]), SubSeq(slice, 1, Len(slice) - 1))

heapify_reversed(slice) == fold_insert_reversed(EmptyHeap, slice)

heapify(slice) == fold_insert(EmptyHeap, slice)

\* extract_object up to the call of bubble_down: the table records of the
\* first and last position are dropped, the front is popped and the former
\* last element is pushed to the front.
root_replaced(h) ==
    LET h1 == handle_table_changes(h)
        h2 == [h1 EXCEPT !.elements = IF @ = <<>> THEN @ ELSE Tail(@)]
    IN  IF h2.elements # <<>>
        THEN LET last_entry == h2.elements[Len(h2.elements)]
                 h3 == [h2 EXCEPT !.elements = SubSeq(@, 1, Len(@) - 1)]
             IN  push_front(h3, last_entry)
        ELSE h2

\* Mutant: the former last element is pushed to the front and left there.
extract_object_without_bubble_down(h) ==
    [h |-> root_replaced(h), ret |-> peek(h)]

\* A method with a return value yields [h |-> heap after, ret |-> value].
extract_object(h) ==
    LET max_priority_elem == peek(h)
    IN  IF Len(h.elements) >= 2
        THEN [h |-> bubble_down(root_replaced(h), 0), ret |-> max_priority_elem]
        ELSE [h |-> root_replaced(h), ret |-> max_priority_elem]

PARENT_VIOLATION == "PARENT_VIOLATION"
CHILDREN_VIOLATION == "CHILDREN_VIOLATION"
NoViolation == "None"

check_heap_invariants_at(h, disturbed_index, element) ==
    << IF verify_parent(h, disturbed_index, element) THEN NoViolation ELSE PARENT_VIOLATION,
       IF verify_children(h, disturbed_index, element) THEN NoViolation ELSE CHILDREN_VIOLATION >>

\* Mutant: a CHILDREN_VIOLATION is not repaired.
fix_invariant_parent_only(h, concerned_index, invariant) ==
    CASE invariant = PARENT_VIOLATION -> bubble_up(h, concerned_index)
      [] invariant = CHILDREN_VIOLATION -> h
      [] OTHER -> Panic(h)

fix_invariant(h, concerned_index, invariant) ==
    CASE invariant = PARENT_VIOLATION -> bubble_up(h, concerned_index)
      [] invariant = CHILDREN_VIOLATION -> bubble_down(h, concerned_index)
      [] OTHER -> Panic(h)

\* Mutant: a lone PARENT_VIOLATION is not repaired.
ensure_heap_invariants_children_only(h, invariant_status, concerned_index) ==
    CASE invariant_status[1] # NoViolation /\ invariant_status[2] # NoViolation ->
            fix_invariant(fix_invariant(h, concerned_index, invariant_status[1]),
                          concerned_index, invariant_status[2])
      [] invariant_status[1] = NoViolation /\ invariant_status[2] # NoViolation ->
            fix_invariant(h, concerned_index, invariant_status[2])
      [] OTHER -> h

ensure_heap_invariants(h, invariant_status, concerned_index) ==
    CASE invariant_status[1] # NoViolation /\ invariant_status[2] # NoViolation ->
            fix_invariant(fix_invariant(h, concerned_index, invariant_status[1]),
                          concerned_index, invariant_status[2])
      [] invariant_status[1] = NoViolation /\ invariant_status[2] # NoViolation ->
            fix_invariant(h, concerned_index, invariant_status[2])
      [] invariant_status[1] # NoViolation /\ invariant_status[2] = NoViolation ->
            fix_invariant(h, concerned_index, invariant_status[1])
      [] OTHER -> h

\* Interior arm, up to pop_back: the target is swapped to the tail and popped.
swap_to_tail_and_pop(h, index_to_remove) ==
    LET last_element_index == len(h) - 1
        h1 == swap_elements(h, index_to_remove, last_element_index)
        h2 == remove_from_table(h1, last_element_index, last_element_index)
    IN  [h |-> [h2 EXCEPT !.elements = SubSeq(@, 1, Len(@) - 1)],
         ret |-> element_at(h2, last_element_index)]

\* Mutant: the last position is handled by the interior arm.
remove_object_without_last_arm(h, object) ==
    LET present_indices == get_index(h, object)
    IN  IF present_indices = <<>> THEN [h |-> h, ret |-> NoneVal]
        ELSE IF len(h) = 0 THEN [h |-> Panic(h), ret |-> NoneVal]
        ELSE LET index_to_remove == present_indices[1]
             IN  CASE index_to_remove = 0 -> extract_object(h)
                   [] OTHER ->
                        LET popped == swap_to_tail_and_pop(h, index_to_remove)
                            h3 == popped.h
                        IN  IF h3.panicked \/ element_at(h3, index_to_remove) = NoneVal
                            THEN [h |-> Panic(h3), ret |-> NoneVal]
                            ELSE LET res == check_heap_invariants_at(h3, index_to_remove,
                                                element_at(h3, index_to_remove))
                                 IN  [h |-> ensure_heap_invariants(h3, res, index_to_remove),
                                      ret |-> popped.ret]

remove_object(h, object) ==
    LET present_indices == get_index(h, object)
    IN  IF present_indices = <<>> THEN [h |-> h, ret |-> NoneVal]
        ELSE IF len(h) = 0 THEN [h |-> Panic(h), ret |-> NoneVal]
        ELSE LET index_to_remove == present_indices[1]
                 last_element_index == len(h) - 1
             IN  CASE index_to_remove = 0 -> extract_object(h)
                   [] index_to_remove # 0 /\ index_to_remove = last_element_index ->
                        LET h1 == remove_from_table(h, last_element_index, last_element_index)
                        IN  [h |-> [h1 EXCEPT !.elements = SubSeq(@, 1, Len(@) - 1)],
                             ret |-> element_at(h1, last_element_index)]
                   [] OTHER ->
                        LET popped == swap_to_tail_and_pop(h, index_to_remove)
                            h3 == popped.h
                        IN  IF h3.panicked \/ element_at(h3, index_to_remove) = NoneVal
                            THEN [h |-> Panic(h3), ret |-> NoneVal]
                            ELSE LET res == check_heap_invariants_at(h3, index_to_remove,
                                                element_at(h3, index_to_remove))
                                 IN  [h |-> ensure_heap_invariants(h3, res, index_to_remove),
                                      ret |-> popped.ret]

\* The arm of the match in remove_object that a call takes and, for the
\* interior arm, the status check_heap_invariants_at reports.
remove_path(h, object) ==
    LET present_indices == get_index(h, object)
    IN  IF present_indices = <<>> \/ len(h) = 0 THEN "absent"
        ELSE IF present_indices[1] = 0 THEN "root"
        ELSE IF present_indices[1] = len(h) - 1 THEN "last"
        ELSE LET h3 == swap_to_tail_and_pop(h, present_indices[1]).h
                 res == check_heap_invariants_at(h3, present_indices[1],
                            element_at(h3, present_indices[1]))
             IN  CASE res = <<NoViolation, NoViolation>> -> "interior"
                   [] res = <<PARENT_VIOLATION, NoViolation>> -> "interior_up"
                   [] res = <<NoViolation, CHILDREN_VIOLATION>> -> "interior_down"
                   [] OTHER -> "interior_both"

----
\* lib.rs: the simple min-heap, a VecDeque without a position table. Its
\* methods are operators on records [elements, panicked].
LibPanic(h) == [h EXCEPT !.panicked = TRUE]

lib_new == [elements |-> <<>>, panicked |-> FALSE]

lib_element_at(h, ind) ==
    IF ind >= 0 /\ ind < Len(h.elements) THEN h.elements[ind + 1] ELSE NoneVal

lib_peek(h) == lib_element_at(h, 0)

lib_parent_ind(child_ind) ==
    IF child_ind = 0 THEN 0
    ELSE IF child_ind % 2 = 0 THEN (child_ind \div 2) - 1
    ELSE child_ind \div 2

\* The children of a position, whether or not they exist.
lib_children_indices(parent_ind) ==
    <<(parent_ind + 1) * 2 - 1, (parent_ind + 1) * 2>>

\* min_index over the element sequence; NoneInd stands for the panic when
\* neither child exists.
min_index(elems, indices) ==
    LET child1 == IF indices[1] < Len(elems) THEN elems[indices[1] + 1] ELSE NoneVal
        child2 == IF indices[2] < Len(elems) THEN elems[indices[2] + 1] ELSE NoneVal
    IN  IF child1 # NoneVal /\ child2 # NoneVal
        THEN IF le(child1, child2) THEN indices[1] ELSE indices[2]
        ELSE IF child1 = NoneVal /\ child2 = NoneVal THEN NoneInd
             ELSE IF child1 # NoneVal THEN indices[1] ELSE indices[2]

lib_verify_parent(h, child_node_ind, child) ==
    LET parent == lib_element_at(h, lib_parent_ind(child_node_ind))
    IN  IF parent # NoneVal THEN le(parent, child) ELSE TRUE

lib_verify_children(h, index, parent) ==
    \A k \in 1..2 :
        LET child == lib_element_at(h, lib_children_indices(index)[k])
        IN  IF child # NoneVal THEN le(parent, child) ELSE TRUE

\* Called on positions that hold an element; the unwrap is guarded by the callers below.
lib_verify_heap_property(h, index) ==
    LET current_node == lib_element_at(h, index)
    IN  lib_verify_parent(h, index, current_node) /\ lib_verify_children(h, index, current_node)

\* VecDeque::swap panics on a position that is out of bounds.
lib_swap(h, i, j) ==
    IF lib_element_at(h, i) = NoneVal \/ lib_element_at(h, j) = NoneVal THEN LibPanic(h)
    ELSE [h EXCEPT !.elements = [@ EXCEPT ![i + 1] = h.elements[j + 1],
                                          ![j + 1] = h.elements[i + 1]]]

\* At the root parent_ind answers the root itself: the swap changes nothing
\* and the recursion never ends, which aborts the program.
RECURSIVE lib_bubble_up(_, _)
lib_bubble_up(h, start_ind) ==
    IF h.panicked THEN h
    ELSE IF lib_element_at(h, start_ind) = NoneVal THEN LibPanic(h)
    ELSE IF lib_verify_heap_property(h, start_ind) THEN h
    ELSE LET parent_ind == lib_parent_ind(start_ind)
         IN  IF parent_ind = start_ind THEN LibPanic(h)
             ELSE lib_bubble_up(lib_swap(h, start_ind, parent_ind), parent_ind)

RECURSIVE lib_bubble_down(_, _)
lib_bubble_down(h, start) ==
    IF h.panicked THEN h
    ELSE IF lib_element_at(h, start) = NoneVal THEN LibPanic(h)
    ELSE IF lib_verify_heap_property(h, start) THEN h
    ELSE LET min_ind == min_index(h.elements, lib_children_indices(start))
         IN  IF min_ind = NoneInd THEN LibPanic(h)
             ELSE lib_bubble_down(lib_swap(h, min_ind, start), min_ind)

lib_insert(h, object) ==
    LET h1 == [h EXCEPT !.elements = Append(@, object)]
        inserted_index == Len(h1.elements) - 1
    IN  lib_bubble_up(h1, inserted_index)

\* Mutant: the former last element is pushed to the front and left there.
lib_extract_min_without_bubble_down(h) ==
    LET min == lib_peek(h)
        h1 == [h EXCEPT !.elements = IF @ = <<>> THEN @ ELSE Tail(@)]
    IN  IF h1.elements = <<>> THEN [h |-> h1, ret |-> min]
        ELSE LET last_entry == h1.elements[Len(h1.elements)]
                 h2 == [h1 EXCEPT !.elements = <<last_entry>> \o SubSeq(@, 1, Len(@) - 1)]
             IN  [h |-> h2, ret |-> min]

lib_extract_min(h) ==
    LET min == lib_peek(h)
        h1 == [h EXCEPT !.elements = IF @ = <<>> THEN @ ELSE Tail(@)]
    IN  IF h1.elements = <<>> THEN [h |-> h1, ret |-> min]
        ELSE LET last_entry == h1.elements[Len(h1.elements)]
                 h2 == [h1 EXCEPT !.elements = <<last_entry>> \o SubSeq(@, 1, Len(@) - 1)]
             IN  [h |-> lib_bubble_down(h2, 0), ret |-> min]

----
\* The index arithmetic as the machine computes it.  The widths are scaled:
\* i32 has I32Bits bits and usize twice as many, as 32 is to 64.
I32Bits == 6

UsizeBits == 2 * I32Bits

I32Modulus == 2 ^ I32Bits

UsizeModulus == 2 ^ UsizeBits

I32Min == -(I32Modulus \div 2)

I32Max == (I32Modulus \div 2) - 1

\* `x as i32` of a usize: the low bits, read as two's complement.
as_i32(x) ==
    LET low == x % I32Modulus
    IN  IF low > I32Max THEN low - I32Modulus ELSE low

\* `x as usize` of an i32: sign extension, so a negative x lands at the top.
as_usize(x) == x % UsizeModulus

\* i32 `/`: the quotient is truncated towards zero.
i32_div(a, b) == IF a >= 0 THEN a \div b ELSE -((-a) \div b)

\* The answer of a call that stopped at an arithmetic overflow panic.
Overflowed == -2

\* element_at(ind).is_some() on a heap of length n.
present(n, ind) == ind >= 0 /\ ind < n

\* parent_index on a heap of length n.  `(ind as i32 / 2) - 1` cannot
\* overflow: the quotient is at least I32Min / 2.
parent_index_machine(n, child_ind) ==
    IF ~present(n, child_ind) THEN NoneInd
    ELSE IF even(child_ind)
         THEN LET parent_ind == i32_div(as_i32(child_ind), 2) - 1
              IN  IF present(n, as_usize(parent_ind)) THEN as_usize(parent_ind) ELSE NoneInd
         ELSE LET parent_ind == child_ind \div 2
              IN  IF present(n, parent_ind) THEN parent_ind ELSE NoneInd

\* children_indices on a heap of length n.  With overflow checks (debug
\* builds) an overflowing +, * or - panics; without them it wraps.
children_indices_machine(n, overflow_checks, parent_ind) ==
    LET sum == parent_ind + 1
        twice == (sum % UsizeModulus) * 2
        difference == as_i32(twice % UsizeModulus) - 1
        overflows == sum >= UsizeModulus \/ twice >= UsizeModulus \/ difference < I32Min
        child_1_ind == as_usize(as_i32(difference))
        child_2_ind == twice % UsizeModulus
    IN  IF overflow_checks /\ overflows THEN <<Overflowed, Overflowed>>
        ELSE << IF present(n, child_1_ind) THEN child_1_ind ELSE NoneInd,
                IF present(n, child_2_ind) THEN child_2_ind ELSE NoneInd >>

\* The probe before any question is asked.
NoProbe ==
    [len |-> 0, overflow_checks |-> FALSE, asked |-> "none", ind |-> 0,
     parent |-> NoneInd, children |-> <<NoneInd, NoneInd>>]

----
\* The program: one action per public method.

\* The fields and the bookkeeping of a new heap.
construct_heap(hb, ord) ==
    /\ elements = <<>>
    /\ kind \in Kinds
    /\ element_indices = <<>>
    /\ hash_builder = hb
    /\ ordering = ord
    /\ panicked = FALSE
    /\ op = "new"
    /\ arg = NoneVal
    /\ ret = NoneVal
    /\ path = "none"
    /\ ledger = [v \in Values |-> 0]
    /\ phase = "fill"
    /\ input = [v \in Values |-> 0]
    /\ run = <<>>
    /\ items = <<>>
    /\ simple = lib_new
    /\ simple_ret = NoneVal

\* new(kind), with the hasher and the order of T given.
construct(hb, ord) == construct_heap(hb, ord) /\ probe = NoProbe

\* new(kind) for a totally ordered T.
new(hb) == construct(hb, "total")

\* A hasher under which the values have pairwise distinct hashes.
Init == new(DistinctHashes)

\* Any hasher, colliding ones included.
InitAnyHasher == \E hb \in HashBuilders : new(hb)

Install(h) ==
    /\ elements' = h.elements
    /\ element_indices' = h.element_indices
    /\ panicked' = h.panicked
    /\ UNCHANGED <<kind, hash_builder, ordering>>

insert_call(object) ==
    /\ ~panicked
    /\ Len(elements) < MaxLen
    /\ Install(insert(Self, object))
    /\ op' = "insert"
    /\ arg' = object
    /\ ret' = NoneVal
    /\ path' = "none"
    /\ ledger' = [ledger EXCEPT ![object] = @ + 1]

extract_object_call ==
    /\ ~panicked
    /\ LET r == extract_object(Self)
       IN  /\ Install(r.h)
           /\ ret' = r.ret
           /\ ledger' = IF r.ret # NoneVal THEN [ledger EXCEPT ![r.ret] = @ - 1] ELSE ledger
    /\ op' = "extract_object"
    /\ arg' = NoneVal
    /\ path' = "none"

Insert(object) ==
    /\ insert_call(object)
    /\ UNCHANGED <<phase, input, run, items, simple, simple_ret, probe>>

Extract ==
    /\ extract_object_call
    /\ UNCHANGED <<phase, input, run, items, simple, simple_ret, probe>>

Remove(object) ==
    /\ ~panicked
    /\ LET r == remove_object(Self, object)
       IN  /\ Install(r.h)
           /\ ret' = r.ret
           /\ ledger' = IF r.ret # NoneVal THEN [ledger EXCEPT ![r.ret] = @ - 1] ELSE ledger
    /\ op' = "remove_object"
    /\ arg' = object
    /\ path' = remove_path(Self, object)
    /\ UNCHANGED <<phase, input, run, items, simple, simple_ret, probe>>

Peek ==
    /\ ~panicked
    /\ op' = "peek"
    /\ arg' = NoneVal
    /\ ret' = peek(Self)
    /\ path' = "none"
    /\ UNCHANGED <<elements, kind, element_indices, hash_builder, ordering, panicked,
                   ledger, phase, input, run, items, simple, simple_ret, probe>>

Next ==
    \/ \E object \in Values : Insert(object)
    \/ Extract
    \/ \E object \in Values : Remove(object)
    \/ Peek

Spec == Init /\ [][Next]_vars

SpecAnyHasher == InitAnyHasher /\ [][Next]_vars

\* A hasher under which two of the values share a bucket.
InitColliding == new(CollidingHashes)

SpecColliding == InitColliding /\ [][Next]_vars

\* A T whose PartialOrd leaves some pairs of values incomparable.
InitPartial == construct(DistinctHashes, "partial")

SpecPartial == InitPartial /\ [][Next]_vars

\* heapify(items, kind) on one side, new(kind) and one insert per item on the other.
Slices == UNION {[1..n -> Values] : n \in 0..MaxLen}

Heapify(slice) ==
    /\ op = "new"
    /\ Install(heapify(slice))
    /\ op' = "heapify"
    /\ arg' = NoneVal
    /\ ret' = NoneVal
    /\ path' = "none"
    /\ ledger' = Count(slice)
    /\ items' = slice
    /\ UNCHANGED <<phase, input, run, simple, simple_ret, probe>>

InsertItem(object) ==
    /\ insert_call(object)
    /\ items' = Append(items, object)
    /\ UNCHANGED <<phase, input, run, simple, simple_ret, probe>>

NextHeapify ==
    \/ \E slice \in Slices : Heapify(slice)
    \/ \E object \in Values : InsertItem(object)

SpecHeapify == Init /\ [][NextHeapify]_vars

\* Insert a multiset, then extract until None (and beyond).
Fill(object) ==
    /\ phase = "fill"
    /\ insert_call(object)
    /\ input' = [input EXCEPT ![object] = @ + 1]
    /\ UNCHANGED <<phase, run, items, simple, simple_ret, probe>>

Drain ==
    /\ extract_object_call
    /\ phase' = "drain"
    /\ run' = IF ret' # NoneVal THEN Append(run, ret') ELSE run
    /\ UNCHANGED <<input, items, simple, simple_ret, probe>>

NextDrain ==
    \/ \E object \in Values : Fill(object)
    \/ Drain

SpecDrain == Init /\ [][NextDrain]_vars

\* The indexed heap of kind Min and the min-heap of lib.rs, given the same
\* insert and extract calls.
InitSideBySide == InitAnyHasher /\ kind = "Min"

InsertBoth(object) ==
    /\ ~simple.panicked
    /\ insert_call(object)
    /\ simple' = lib_insert(simple, object)
    /\ simple_ret' = NoneVal
    /\ UNCHANGED <<phase, input, run, items, probe>>

ExtractBoth ==
    /\ ~simple.panicked
    /\ extract_object_call
    /\ simple' = lib_extract_min(simple).h
    /\ simple_ret' = lib_extract_min(simple).ret
    /\ UNCHANGED <<phase, input, run, items, probe>>

NextSideBySide ==
    \/ \E object \in Values : InsertBoth(object)
    \/ ExtractBoth

SpecSideBySide == InitSideBySide /\ [][NextSideBySide]_vars

\* parent_index and children_indices asked once about any position a usize
\* can hold, on heaps of several lengths, in builds with and without overflow
\* checks.
Lengths == {0, 2, MaxLen, I32Max, I32Max + 4, I32Modulus + 4, UsizeModulus - 1}

UsizePositions == 0..(UsizeModulus - 1)

InitArithmetic ==
    /\ construct_heap(DistinctHashes, "total")
    /\ kind = "Min"
    /\ \E n \in Lengths, oc \in BOOLEAN :
           probe = [NoProbe EXCEPT !.len = n, !.overflow_checks = oc]

ParentIndex(child_ind) ==
    /\ probe.asked = "none"
    /\ probe' = [probe EXCEPT !.asked = "parent_index", !.ind = child_ind,
                              !.parent = parent_index_machine(probe.len, child_ind),
                              !.children = <<NoneInd, NoneInd>>]
    /\ UNCHANGED <<elements, kind, element_indices, hash_builder, ordering, panicked,
                   op, arg, ret, path, ledger, phase, input, run, items, simple, simple_ret>>

ChildrenIndices(parent_ind) ==
    /\ probe.asked = "none"
    /\ probe' = [probe EXCEPT !.asked = "children_indices", !.ind = parent_ind,
                              !.parent = NoneInd,
                              !.children = children_indices_machine(probe.len,
                                               probe.overflow_checks, parent_ind)]
    /\ UNCHANGED <<elements, kind, element_indices, hash_builder, ordering, panicked,
                   op, arg, ret, path, ledger, phase, input, run, items, simple, simple_ret>>

NextArithmetic ==
    \/ \E child_ind \in UsizePositions : ParentIndex(child_ind)
    \/ \E parent_ind \in UsizePositions : ChildrenIndices(parent_ind)

SpecArithmetic == InitArithmetic /\ [][NextArithmetic]_vars

----
\* Vocabulary of the properties.

Range(s) == {s[i] : i \in DOMAIN s}

\* a may sit at or above b: a <= b in a Min heap, a >= b in a Max heap.
Outranks(a, b) == (kind = "Min" /\ a <= b) \/ (kind = "Max" /\ a >= b)

InjectiveHasher ==
    \A a, b \in Values : a # b => hash_value(hash_builder, a) # hash_value(hash_builder, b)

PositionsOf(v) == {p \in 0..(Len(elements) - 1) : elements[p + 1] = v}

Occurrences(bucket, p) == Cardinality({k \in DOMAIN bucket : bucket[k] = p})

RECURSIVE SumOver(_, _)
SumOver(c, S) ==
    IF S = {} THEN 0
    ELSE LET v == CHOOSE x \in S : TRUE IN c[v] + SumOver(c, S \ {v})

Total(c) == SumOver(c, DOMAIN c)

SortedRun ==
    \A i \in 1..(Len(run) - 1) : Outranks(run[i], run[i + 1])

----
\* C1: heap-order invariant.  After every insert, extract_object and
\* remove_object call, for both kinds, every position i > 0 holds a value
\* that its parent floor((i-1)/2) outranks (parent <= child for Min,
\* parent >= child for Max).
C1_HeapOrder ==
    /\ ~panicked
    /\ \A i \in 1..(Len(elements) - 1) :
            Outranks(elements[((i - 1) \div 2) + 1], elements[i + 1])

\* An interior removal whose swapped-in element had to rise has returned.
C1_Witness ==
    /\ op = "remove_object"
    /\ path = "interior_up"
    /\ ret # NoneVal
    /\ Len(elements) >= 5
    /\ Cardinality(Range(elements)) >= 2

\* C2: index consistency (pairwise distinct hashes).  Every position p < len
\* appears exactly once in the bucket of hash(elements[p]) and in no other
\* bucket, no bucket holds a position >= len or a repeated position, and
\* get_index(v) is exactly the set of positions holding v (None when empty).
C2_IndexConsistent ==
    InjectiveHasher =>
        /\ \A p \in 0..(Len(elements) - 1) :
              /\ hash_value(hash_builder, elements[p + 1]) \in DOMAIN element_indices
              /\ \A hv \in DOMAIN element_indices :
                    Occurrences(element_indices[hv], p) =
                        IF hv = hash_value(hash_builder, elements[p + 1]) THEN 1 ELSE 0
        /\ \A hv \in DOMAIN element_indices :
              \A k \in DOMAIN element_indices[hv] :
                    /\ element_indices[hv][k] \in 0..(Len(elements) - 1)
                    /\ \A j \in DOMAIN element_indices[hv] :
                          j # k => element_indices[hv][j] # element_indices[hv][k]
        /\ \A v \in Values :
              /\ Range(get_index(Self, v)) = PositionsOf(v)
              /\ Len(get_index(Self, v)) = Cardinality(PositionsOf(v))

\* Duplicates and an emptied bucket after an interior removal.
C2_Witness ==
    /\ InjectiveHasher
    /\ op = "remove_object"
    /\ path = "interior_down"
    /\ \E v \in Values : Cardinality(PositionsOf(v)) >= 2
    /\ \E hv \in DOMAIN element_indices : element_indices[hv] = <<>>

\* C3: every extract on a non-empty heap returns a held element that
\* outranks every held element (the minimum for Min, the maximum for Max)
\* and removes exactly that one occurrence; on an empty heap it returns None.
C3_ExtractReturnsBest ==
    [][op' = "extract_object" =>
        IF elements = <<>>
        THEN ret' = NoneVal /\ elements' = <<>>
        ELSE /\ ret' \in Range(elements)
             /\ \A y \in Range(elements) : Outranks(ret', y)
             /\ Count(elements') = [Count(elements) EXCEPT ![ret'] = @ - 1]
             /\ ~panicked']_vars

C3_Witness ==
    /\ op = "extract_object"
    /\ ret # NoneVal
    /\ Len(elements) >= 3
    /\ \E y \in Range(elements) : y # ret

\* C4: sorted-extraction law (SpecDrain).  After inserting a multiset, the
\* values returned by successive extract_object calls come out in
\* non-decreasing order for Min and non-increasing order for Max; with what
\* is still held they are the inserted multiset, and once extract_object
\* returns None they are exactly the inserted multiset, with its length.
C4_SortedExtraction ==
    /\ SortedRun
    /\ \A v \in Values : Count(run)[v] + Count(elements)[v] = input[v]
    /\ (op = "extract_object" /\ ret = NoneVal) =>
            (Count(run) = input /\ Len(run) = Total(input))

\* A heap of at least five elements, three distinct, has been drained to None.
C4_Witness ==
    /\ op = "extract_object"
    /\ ret = NoneVal
    /\ Len(run) >= 5
    /\ Cardinality(Range(run)) >= 3

\* C5: removal of a present value (pairwise distinct hashes).  If v occurs
\* k >= 1 times, remove_object(&v) returns Some(v), leaves k-1 occurrences of
\* v and every other count unchanged, and decreases len by 1, whichever arm
\* (root, last, interior) it takes.
C5_RemovePresent ==
    [][(op' = "remove_object" /\ InjectiveHasher /\ arg' \in Range(elements)) =>
        /\ ret' = arg'
        /\ Count(elements') = [Count(elements) EXCEPT ![arg'] = @ - 1]
        /\ Len(elements') = Len(elements) - 1
        /\ path' \in {"root", "last", "interior", "interior_up", "interior_down"}
        /\ ~panicked']_vars

\* One of several copies was removed from the interior.
C5_Witness ==
    /\ InjectiveHasher
    /\ op = "remove_object"
    /\ path \in {"interior", "interior_up", "interior_down"}
    /\ ret = arg
    /\ arg \in Range(elements)

\* C6: whatever the hasher, a remove_object(&v) that returns Some(x)
\* returns x = v and the element that left the heap is an occurrence of v.
C6_RemoveReturnsArgument ==
    [][(op' = "remove_object" /\ ret' # NoneVal) =>
        /\ ret' = arg'
        /\ Count(elements') = [Count(elements) EXCEPT ![arg'] = @ - 1]]_vars

\* C7: removal of an absent value (pairwise distinct hashes) returns None
\* and leaves the element sequence, the position index and len unchanged.
C7_RemoveAbsent ==
    [][(op' = "remove_object" /\ InjectiveHasher /\ arg' \notin Range(elements)) =>
        /\ ret' = NoneVal
        /\ elements' = elements
        /\ element_indices' = element_indices
        /\ Len(elements') = Len(elements)
        /\ ~panicked']_vars

\* The value was held once and is gone: its bucket exists and is empty.
C7_Witness ==
    /\ InjectiveHasher
    /\ op = "remove_object"
    /\ ret = NoneVal
    /\ elements # <<>>
    /\ hash_value(hash_builder, arg) \in DOMAIN element_indices
    /\ element_indices[hash_value(hash_builder, arg)] = <<>>

\* C8: emptiness laws.  On an empty heap extract_object, peek and
\* remove_object return None and leave elements and index unchanged; an
\* insert(x) into the empty heap followed by an extract returns x.
C8_EmptinessLaws ==
    [][/\ (elements = <<>> /\ op' \in {"extract_object", "peek", "remove_object"}) =>
            /\ ret' = NoneVal
            /\ elements' = elements
            /\ element_indices' = element_indices
            /\ ~panicked'
       /\ (op = "insert" /\ Len(elements) = 1 /\ op' = "extract_object") =>
            /\ ret' = arg
            /\ elements' = <<>>
            /\ ~panicked']_vars

\* A call on a heap that was emptied (its buckets remain, all empty).
C8_Witness ==
    /\ op \in {"extract_object", "remove_object"}
    /\ ret = NoneVal
    /\ elements = <<>>
    /\ DOMAIN element_indices # {}

\* C9: multiset conservation.  The elements held are the inserted values
\* minus the values returned by successful extract_object / remove_object
\* calls; len() is the size of that multiset and is_empty() is len() = 0.
C9_Conservation ==
    /\ Count(elements) = ledger
    /\ len(Self) = Total(ledger)
    /\ is_empty(Self) <=> (len(Self) = 0)

C9_Witness ==
    /\ op = "remove_object"
    /\ ret # NoneVal
    /\ Total(ledger) >= 3
    /\ \E v \in Values : ledger[v] >= 2

\* C10: peek returns what the next extract returns (an element outranking
\* all held ones; None exactly when the heap is empty) and changes neither
\* elements, index nor len.
C10_Peek ==
    [][/\ op' = "peek" =>
            /\ elements' = elements
            /\ element_indices' = element_indices
            /\ Len(elements') = Len(elements)
            /\ (ret' = NoneVal) <=> (elements = <<>>)
            /\ elements # <<>> =>
                  (ret' \in Range(elements) /\ \A y \in Range(elements) : Outranks(ret', y))
       /\ (op = "peek" /\ op' = "extract_object") => ret' = ret]_vars

C10_Witness ==
    /\ op = "peek"
    /\ ret # NoneVal
    /\ Len(elements) >= 3
    /\ \E y \in Range(elements) : y # ret

\* C11: insert never fails.  From any reachable heap, for any value of a
\* type with a total or partial order (incomparable pairs included), the
\* call returns without panicking and the value is in the heap afterwards.
C11_InsertNeverFails ==
    [][op' = "insert" =>
        /\ ~panicked'
        /\ Count(elements') = [Count(elements) EXCEPT ![arg'] = @ + 1]]_vars

\* C12: heapify(items, kind) is new(kind) followed by insert of each item in
\* slice order: the heap built by the inserts is the heap heapify returns,
\* it holds exactly the multiset of items (len = items.len()) and satisfies
\* the heap-order and index invariants; new(kind) is empty (len 0, is_empty,
\* peek None).
C12_HeapifyIsRepeatedInsert ==
    /\ op = "new" => (len(Self) = 0 /\ is_empty(Self) /\ peek(Self) = NoneVal)
    /\ op \in {"heapify", "insert"} =>
          /\ elements = heapify(items).elements
          /\ element_indices = heapify(items).element_indices
          /\ panicked = heapify(items).panicked
          /\ len(Self) = Len(items)
          /\ Count(elements) = Count(items)
          /\ C1_HeapOrder
          /\ C2_IndexConsistent

\* heapify of a slice of at least five items, three of them distinct, that
\* had to reorder them.
C12_Witness ==
    /\ op = "heapify"
    /\ Len(items) >= 5
    /\ Cardinality(Range(items)) >= 3
    /\ elements # items

\* Work of one call: element swaps plus index-bucket entries visited.
Work(h) == h.swaps + h.visited

\* The least k with 2^k >= n (an upper bound of log2 n).
RECURSIVE CeilLog2(_)
CeilLog2(n) == IF n <= 1 THEN 0 ELSE 1 + CeilLog2((n + 1) \div 2)

\* The greatest k with 2^k <= n.
RECURSIVE FloorLog2(_)
FloorLog2(n) == IF n <= 1 THEN 0 ELSE 1 + FloorLog2(n \div 2)

\* C13: remove_object on a heap of n elements costs O(log n) also when
\* values are duplicated: swaps plus bucket entries visited stay within a
\* constant multiple of log2(n) + 1 whatever the number of copies of a value.
\* The multiple is 4: with one position per bucket a call costs at most
\* 3 per level of the tree (a swap and the two records it drops) plus 2.
C13_RemoveLogarithmic ==
    [][(op' = "remove_object" /\ elements # <<>>) =>
        Work(remove_object(Self, arg').h) <= 4 * (CeilLog2(Len(elements)) + 1)]_vars

\* C14: no sequence of public operations on totally ordered values reaches
\* an internal panic (the (None, None) arm of index_with_priority, an unwrap
\* of None, an unsupported tag in fix_invariant), and the body of bubble_up
\* runs only at a position whose parent exists and is violated, the body of
\* bubble_down only at a position with a violated child.
C14_NoInternalPanic ==
    [][/\ ~panicked'
       /\ op' = "insert" => ~insert(Self, arg').unforced
       /\ op' = "extract_object" => ~extract_object(Self).h.unforced
       /\ op' = "remove_object" => ~remove_object(Self, arg').h.unforced]_vars

\* An interior removal of a full heap that had to sink the swapped-in
\* element has returned.
C14_Witness ==
    /\ ~panicked
    /\ op = "remove_object"
    /\ path = "interior_down"
    /\ Len(elements) = MaxLen - 1

\* C15: hash collisions do not corrupt the heap property.  When two
\* distinct values share an index bucket, every state reached by insert /
\* extract_object / remove_object still has each parent outranking its
\* children, also after remove_object acted on a position holding another
\* value than the one asked for.
C15_CollisionsKeepHeapOrder ==
    (\E a, b \in Values : a # b /\ hash_value(hash_builder, a) = hash_value(hash_builder, b)) =>
        /\ ~panicked
        /\ \A p \in 0..(Len(elements) - 1) :
              \A c \in {2 * p + 1, 2 * p + 2} :
                  c < Len(elements) => Outranks(elements[p + 1], elements[c + 1])

\* remove_object took another value than its argument out of the interior.
C15_Witness ==
    /\ ~InjectiveHasher
    /\ op = "remove_object"
    /\ ret # NoneVal
    /\ ret # arg
    /\ path \in {"interior_up", "interior_down"}

C17_BubbleLoopsBounded ==
    [][/\ op' \in {"insert", "extract_object", "remove_object"} => ~panicked'
       /\ \A p \in 0..(Len(elements') - 1) :
             /\ parent_index(Self', p) # NoneInd => parent_index(Self', p) < p
             /\ \A k \in 1..2 : children_indices(Self', p)[k] # NoneInd =>
                                    children_indices(Self', p)[k] > p
       /\ op' = "insert" =>
             insert(Self, arg').swaps <= FloorLog2(Len(elements'))
       /\ op' = "extract_object" =>
             extract_object(Self).h.swaps <= FloorLog2(Len(elements'))
       /\ op' = "remove_object" =>
             remove_object(Self, arg').h.swaps <=
                 IF path' \in {"interior", "interior_up", "interior_down", "interior_both"}
                 THEN 1 + FloorLog2(Len(elements'))
                 ELSE FloorLog2(Len(elements'))]_vars

\* An insert whose value rose from the tail through every level to the
\* root: bubble_up did floor(log2(len)) swaps.
C17_Witness ==
    /\ op = "insert"
    /\ ~panicked
    /\ Len(elements) >= 4
    /\ elements[1] = arg
    /\ \A i \in 2..Len(elements) : elements[i] # arg

\* The child the claim names for position pos of heap h: the only child when
\* there is one, else the one that outranks the other, the left one on a tie.
NamedChild(h, pos) ==
    LET left == 2 * pos + 1
        right == 2 * pos + 2
    IN  IF right < Len(h.elements)
        THEN IF Outranks(h.elements[left + 1], h.elements[right + 1]) THEN left ELSE right
        ELSE IF left < Len(h.elements) THEN left ELSE NoneInd

\* Every iteration of bubble_down(h, pos) swaps with the named child.
RECURSIVE BubbleDownChoices(_, _)
BubbleDownChoices(h, pos) ==
    IF h.panicked \/ element_at(h, pos) = NoneVal \/ verify_heap_property(h, pos) THEN TRUE
    ELSE LET chosen == index_with_priority(h, children_indices(h, pos))
         IN  /\ chosen # NoneInd
             /\ chosen = NamedChild(h, pos)
             /\ kind = "Min" => min_index(h.elements, lib_children_indices(pos)) = chosen
             /\ BubbleDownChoices(swap_elements(h, chosen, pos), chosen)

\* C18: each bubble_down step swaps position p with the child whose value
\* is at least as prioritized as the other child's (the smaller for Min,
\* the larger for Max), the left child 2p+1 when both are equal, and the
\* only child when there is just one.
C18_BubbleDownPicksBestChild ==
    [][/\ (op' = "extract_object" /\ Len(elements) >= 2) =>
             BubbleDownChoices(root_replaced(Self), 0)
       /\ (op' = "remove_object" /\ path' = "interior_down") =>
             BubbleDownChoices(swap_to_tail_and_pop(Self, get_index(Self, arg')[1]).h,
                               get_index(Self, arg')[1])]_vars

\* An extraction from four elements left <<c, x, c>> with x # c: the new
\* root x met two equal children and was swapped with the left one.
C18_Witness ==
    /\ op = "extract_object"
    /\ ret # NoneVal
    /\ Len(elements) = 3
    /\ elements[1] = elements[3]
    /\ elements[2] # elements[1]

\* The positions asked about: every position of the longest heap and as
\* many again beyond its end.
Positions == 0..(2 * MaxLen + 2)

\* C19: for a heap of length n and every position i, parent_index(i) is
\* floor((i-1)/2) exactly when 0 < i < n and None otherwise;
\* children_indices(i) lists 2i+1 and 2i+2, each present exactly when it
\* is below n; and parent_index(c) = i for every child c listed.
C19_ParentChildArithmetic ==
    LET n == Len(elements)
    IN  \A i \in Positions :
            /\ parent_index(Self, i) = IF 0 < i /\ i < n THEN (i - 1) \div 2 ELSE NoneInd
            /\ children_indices(Self, i)[1] = IF 2 * i + 1 < n THEN 2 * i + 1 ELSE NoneInd
            /\ children_indices(Self, i)[2] = IF 2 * i + 2 < n THEN 2 * i + 2 ELSE NoneInd
            /\ \A k \in 1..2 :
                   children_indices(Self, i)[k] # NoneInd =>
                       parent_index(Self, children_indices(Self, i)[k]) = i

\* A heap of four elements: position 1 has its first child only, and that
\* child's parent is position 1.
C19_Witness ==
    /\ children_indices(Self, 1) = <<3, NoneInd>>
    /\ parent_index(Self, 3) = 1
    /\ parent_index(Self, 4) = NoneInd

\* C20: when remove_object picks the last position len-1 > 0 it returns
\* the element there, every position 0..len-2 keeps its element and its
\* index record, and no swap or repair is performed.
C20_RemoveLastFrame ==
    [][(op' = "remove_object" /\ path' = "last") =>
          LET n == Len(elements)
              Kept(ind) == ind # n - 1
          IN  /\ n - 1 > 0
              /\ get_index(Self, arg')[1] = n - 1
              /\ ~panicked'
              /\ ret' = elements[n]
              /\ elements' = SubSeq(elements, 1, n - 1)
              /\ DOMAIN element_indices' = DOMAIN element_indices
              /\ \A hv \in DOMAIN element_indices :
                     element_indices'[hv] = SelectSeq(element_indices[hv], Kept)
              /\ remove_object(Self, arg').h.swaps = 0]_vars

\* A removal at the last position of a heap that keeps three elements or more.
C20_Witness ==
    /\ op = "remove_object"
    /\ path = "last"
    /\ ~panicked
    /\ ret = arg
    /\ Len(elements) >= 3

\* C21: run side by side on the same sequence of insert and extract calls,
\* the indexed heap of kind Min and the min-heap of lib.rs return the same
\* values and hold identical element sequences after every call.
C21_SideBySide ==
    /\ simple.elements = elements
    /\ simple_ret = ret
    /\ simple.panicked = panicked

\* An extraction from both heaps that returned a value and left four
\* elements or more, not all equal.
C21_Witness ==
    /\ op = "extract_object"
    /\ kind = "Min"
    /\ ret # NoneVal /\ simple_ret = ret
    /\ Len(simple.elements) >= 4
    /\ simple.elements = elements
    /\ \E i \in 2..Len(elements) : elements[i] # elements[1]

\* C22: the usize-to-i32 casts in parent_index and children_indices do not
\* alter the results: for every position i a usize can hold (stated here
\* for the positions i < len, the ones the methods are called with),
\* children_indices computes 2i+1 and 2i+2 and parent_index computes
\* floor((i-1)/2), with no wrap-around, sign change or overflow in the
\* signed intermediate.
C22_CastsExact ==
    LET n == probe.len
        i == probe.ind
    IN  i < n =>
            /\ probe.asked = "parent_index" =>
                  probe.parent = IF 0 < i THEN (i - 1) \div 2 ELSE NoneInd
            /\ probe.asked = "children_indices" =>
                  /\ probe.children[1] = IF 2 * i + 1 < n THEN 2 * i + 1 ELSE NoneInd
                  /\ probe.children[2] = IF 2 * i + 2 < n THEN 2 * i + 2 ELSE NoneInd
====
